---- MODULE Spec2Model ----
(***************************************************************************)
(* Excel -> MongoDB importer (src/import_excel.py): the value normalizers, *)
(* the field extractor, the owner matcher and the per-row reconciliation   *)
(* loop of main(), over a document store with MongoDB's update semantics.  *)
(*                                                                         *)
(* Text is a TLA+ string; Ch(s, k) is its k-th character.  A value held in *)
(* a document field is a tagged record: Null, Str(s) or a number.          *)
(***************************************************************************)
EXTENDS Integers, Sequences, FiniteSets, TLC

VARIABLES
    store,            \* the collection: a sequence of documents, _id = position
    existing_cache,   \* main's existing_cache: key -> [_id, owners]
    df,               \* the concatenated sheet: a sequence of raw rows
    i,                \* number of rows the loop has consumed
    pc,               \* "loop" | "done" | "aborted"
    run,              \* 1 = first import of df, 2 = re-import of the same df
    total_rows,
    inserted,
    updated,
    owners_merged_contacts,
    owners_added_same_owner_new_date,
    owners_added_new_owner,
    summary,          \* the printed summary (<<>> until the run completes)
    store_ops,        \* the store operations the latest row issued, in order
    store0,           \* the store when the current run seeded its cache
    posRule,          \* which array condition binds the positional $ (server-defined)
    origin,           \* the store before the first run over df started
    resumed,          \* TRUE once the script was started again after an aborted run
    call,             \* a helper called on its own: the function and its arguments
    ret               \* what that call returned (done = FALSE until it returns)

vars == <<store, existing_cache, df, i, pc, run, total_rows, inserted, updated,
          owners_merged_contacts, owners_added_same_owner_new_date,
          owners_added_new_owner, summary, store_ops, store0, posRule, origin, resumed,
          call, ret>>

\* ---------------------------------------------------------------- bounds
MaxRows == 3

\* ------------------------------------------------------------------ text
Ch(s, k) == SubSeq(s, k, k)

Tail1(s) == SubSeq(s, 2, Len(s))

Min(S) == CHOOSE m \in S : \A n \in S : m <= n

Max(S) == CHOOSE m \in S : \A n \in S : m >= n

Digits == {"0", "1", "2", "3", "4", "5", "6", "7", "8", "9"}

WhiteSpace == {" ", "\t", "\n", "\r"}

UpperCase == "ABCDEFGHIJKLMNOPQRSTUVWXYZ"

LowerCase == "abcdefghijklmnopqrstuvwxyz"

\* str.strip()
strip(s) ==
    LET keep == {k \in 1..Len(s) : Ch(s, k) \notin WhiteSpace}
    IN  IF keep = {} THEN "" ELSE SubSeq(s, Min(keep), Max(keep))

LowerChar(c) ==
    LET at == {k \in 1..26 : Ch(UpperCase, k) = c}
    IN  IF at = {} THEN c ELSE Ch(LowerCase, CHOOSE k \in at : TRUE)

\* str.lower()
RECURSIVE lower(_)
lower(s) == IF s = "" THEN "" ELSE LowerChar(Ch(s, 1)) \o lower(Tail1(s))

\* re.sub(r"[^...]", "", s): keep only the characters of `allowed`
RECURSIVE KeepChars(_, _)
KeepChars(s, allowed) ==
    IF s = "" THEN ""
    ELSE (IF Ch(s, 1) \in allowed THEN Ch(s, 1) ELSE "") \o KeepChars(Tail1(s), allowed)

startswith(s, p) == Len(s) >= Len(p) /\ SubSeq(s, 1, Len(p)) = p

endswith(s, p) == Len(s) >= Len(p) /\ SubSeq(s, Len(s) - Len(p) + 1, Len(s)) = p

\* Python's `p in s` on strings
contains(s, p) ==
    \E k \in 1..(Len(s) - Len(p) + 1) : SubSeq(s, k, k + Len(p) - 1) = p

\* str.split("."): the pieces between dots
RECURSIVE SplitOn(_, _, _)
SplitOn(s, seps, cur) ==
    IF s = "" THEN <<cur>>
    ELSE IF Ch(s, 1) \in seps THEN <<cur>> \o SplitOn(Tail1(s), seps, "")
    ELSE SplitOn(Tail1(s), seps, cur \o Ch(s, 1))

RECURSIVE JoinAll(_)
JoinAll(parts) == IF parts = <<>> THEN "" ELSE Head(parts) \o JoinAll(Tail(parts))

DigitVal(c) == CHOOSE d \in 0..9 : Ch("0123456789", d + 1) = c

RECURSIVE DigitsToNat(_, _)
DigitsToNat(s, acc) ==
    IF s = "" THEN acc ELSE DigitsToNat(Tail1(s), 10 * acc + DigitVal(Ch(s, 1)))

\* ---------------------------------------------------------- field values
Null == [t |-> "null"]

Str(s) == [t |-> "str", v |-> s]

\* a double m * 10^-e, e minimal
FloatNum(m, e) == [t |-> "float", m |-> m, e |-> e]

IntNum(m) == [t |-> "int", m |-> m]

\* Python's `x or None` on a string
OrNone(s) == IF s = "" THEN Null ELSE Str(s)

\* Python's `(v or "")` on a stored string-or-null
OrEmpty(v) == IF v = Null THEN "" ELSE v.v

Sentinels == {"", "nan", "null", "none", "-"}

\* float(s) for s over digits, '.' and '-': Null stands for ValueError
RECURSIVE Reduce(_, _)
Reduce(m, e) == IF e > 0 /\ m % 10 = 0 THEN Reduce(m \div 10, e - 1) ELSE FloatNum(m, e)

ToFloat(s) ==
    LET neg   == startswith(s, "-")
        body  == IF neg THEN Tail1(s) ELSE s
        parts == SplitOn(body, {"."}, "")
        whole == parts[1]
        frac  == IF Len(parts) = 2 THEN parts[2] ELSE ""
    IN  IF \/ Len(parts) > 2
           \/ KeepChars(body, Digits \cup {"."}) # body
           \/ whole \o frac = ""
        THEN Null
        ELSE LET mag == DigitsToNat(whole \o frac, 0)
             IN  Reduce(IF neg THEN 0 - mag ELSE mag, Len(frac))

parse_money(val) ==
    LET s == strip(val)
    IN  IF lower(s) \in Sentinels THEN Null
        ELSE LET kept  == KeepChars(s, Digits \cup {".", "-"})
                 parts == SplitOn(kept, {"."}, "")
                 t     == IF Len(parts) > 2
                          THEN parts[1] \o "." \o JoinAll(Tail(parts))
                          ELSE kept
             IN  ToFloat(t)

\* parse_number handing back the text it could not parse
parse_number_keep_text(val) ==
    LET s == strip(val)
    IN  IF lower(s) \in Sentinels THEN Null
        ELSE LET f == ToFloat(KeepChars(s, Digits \cup {".", "-"}))
             IN  IF f = Null THEN Str(s)
                 ELSE IF f.e = 0 THEN IntNum(f.m) ELSE f

parse_number(val) ==
    LET s == strip(val)
    IN  IF lower(s) \in Sentinels THEN Null
        ELSE LET f == ToFloat(KeepChars(s, Digits \cup {".", "-"}))
             IN  IF f = Null THEN Null
                 ELSE IF f.e = 0 THEN IntNum(f.m) ELSE f

\* pd.to_datetime(val, errors="coerce", dayfirst=True) on the two numeric layouts
\* D-M-Y (day first; month first only when the day-first reading is impossible)
\* and ISO Y-M-D; every other text of the modelled sheets is NaT.
AllDigits(s) == s # "" /\ KeepChars(s, Digits) = s

Pad2(s) == IF Len(s) = 1 THEN "0" \o s ELSE s

DaysIn(y, m) ==
    IF m \in {4, 6, 9, 11} THEN 30
    ELSE IF m # 2 THEN 31
    ELSE IF (y % 4 = 0 /\ y % 100 # 0) \/ y % 400 = 0 THEN 29 ELSE 28

ValidDate(y, m, d) == m \in 1..12 /\ d >= 1 /\ d <= DaysIn(y, m)

parse_date(val) ==
    IF val = "" THEN ""
    ELSE LET p == SplitOn(strip(val), {"-", "/"}, "")
         IN  IF Len(p) # 3 \/ \E k \in 1..3 : ~AllDigits(p[k]) THEN ""
             ELSE IF Len(p[1]) = 4 /\ Len(p[2]) <= 2 /\ Len(p[3]) <= 2
             THEN IF ValidDate(DigitsToNat(p[1], 0), DigitsToNat(p[2], 0), DigitsToNat(p[3], 0))
                  THEN p[1] \o "-" \o Pad2(p[2]) \o "-" \o Pad2(p[3])
                  ELSE ""
             ELSE IF Len(p[3]) = 4 /\ Len(p[1]) <= 2 /\ Len(p[2]) <= 2
             THEN LET y == DigitsToNat(p[3], 0)
                      a == DigitsToNat(p[1], 0)
                      b == DigitsToNat(p[2], 0)
                  IN  IF ValidDate(y, b, a)
                      THEN p[3] \o "-" \o Pad2(p[2]) \o "-" \o Pad2(p[1])
                      ELSE IF ValidDate(y, a, b)
                      THEN p[3] \o "-" \o Pad2(p[1]) \o "-" \o Pad2(p[2])
                      ELSE ""
             ELSE ""

\* clean_phone without the local-mobile rewrite 05... -> +9715...
clean_phone_no_local(val) ==
    LET s0 == strip(val)
    IN  IF lower(s0) \in Sentinels THEN ""
        ELSE LET s1 == IF endswith(s0, ".0") THEN SubSeq(s0, 1, Len(s0) - 2) ELSE s0
                 s2 == KeepChars(s1, Digits \cup {"+"})
             IN  IF startswith(s2, "00") THEN "+" \o SubSeq(s2, 3, Len(s2)) ELSE s2

clean_phone(val) ==
    LET s0 == strip(val)
    IN  IF lower(s0) \in Sentinels THEN ""
        ELSE LET s1 == IF endswith(s0, ".0") THEN SubSeq(s0, 1, Len(s0) - 2) ELSE s0
                 s2 == KeepChars(s1, Digits \cup {"+"})
                 s3 == IF startswith(s2, "00") THEN "+" \o SubSeq(s2, 3, Len(s2)) ELSE s2
             IN  IF s2 = "" THEN ""
                 ELSE IF startswith(s3, "05") THEN "+971" \o Tail1(s3) ELSE s3

\* re.split(r"[;,/|&\s]+", raw): a run of separators is one cut
ContactSeps == {";", ",", "/", "|", "&"} \cup WhiteSpace

RECURSIVE SplitRuns(_, _, _)
SplitRuns(s, cur, inRun) ==
    IF s = "" THEN <<cur>>
    ELSE IF Ch(s, 1) \in ContactSeps
         THEN IF inRun THEN SplitRuns(Tail1(s), cur, TRUE)
              ELSE <<cur>> \o SplitRuns(Tail1(s), "", TRUE)
         ELSE SplitRuns(Tail1(s), cur \o Ch(s, 1), FALSE)

InSeq(x, q) == \E k \in 1..Len(q) : q[k] = x

\* DedupPhones without the `c not in seen` test
RECURSIVE DedupPhones_keep_repeats(_, _)
DedupPhones_keep_repeats(parts, out) ==
    IF parts = <<>> THEN out
    ELSE LET c == clean_phone(Head(parts))
         IN  DedupPhones_keep_repeats(Tail(parts), IF c # "" THEN Append(out, c) ELSE out)

RECURSIVE DedupPhones(_, _)
DedupPhones(parts, out) ==
    IF parts = <<>> THEN out
    ELSE LET c == clean_phone(Head(parts))
         IN  DedupPhones(Tail(parts), IF c # "" /\ ~InSeq(c, out) THEN Append(out, c) ELSE out)

split_contacts(raw) ==
    IF raw = "" THEN <<>> ELSE DedupPhones(SplitRuns(raw, "", FALSE), <<>>)

\* ------------------------------------------------------- field extractor
\* A raw row is a sequence of <<column header, cell text>> (dtype=str cells).
LastCol(row, key) == Max({k \in 1..Len(row) : lower(row[k][1]) = key})

\* cols_lower.items(): one item per lowercased header, in first-seen order,
\* each naming the last column that lowercases to it
ColsLowerItems(row) ==
    {k \in 1..Len(row) : \A j \in 1..(k - 1) : lower(row[j][1]) # lower(row[k][1])}

CellOf(row, k) == strip(row[LastCol(row, lower(row[k][1]))][2])

pick(row, candidates) ==
    LET keys  == {lower(row[k][1]) : k \in 1..Len(row)}
        exact == {c \in 1..Len(candidates) :
                     /\ lower(candidates[c]) \in keys
                     /\ strip(row[LastCol(row, lower(candidates[c]))][2]) # ""}
        part(c) == {k \in ColsLowerItems(row) :
                     /\ contains(lower(row[k][1]), lower(candidates[c]))
                     /\ CellOf(row, k) # ""}
        partial == {c \in 1..Len(candidates) : part(c) # {}}
    IN  IF exact # {}
        THEN strip(row[LastCol(row, lower(candidates[Min(exact)]))][2])
        ELSE IF partial # {}
        THEN CellOf(row, Min(part(Min(partial))))
        ELSE ""

\* the header aliases of the fields whose text is parsed
AreaNames == <<"Unit Size", "Size", "Area", "Area (sqft)", "Built-up Area">>

PriceNames == <<"Price", "ProcedureValue", "Procedure Val", "ProcedureVal", "Value">>

BedsNames == <<"Beds", "Bed", "Bedrooms">>

RegDateNames == <<"Regis", "Registration Date", "Reg Date">>

\* main(), lines 211-241: every field of one row, extracted and normalized
Extract(row) ==
    LET price_raw == pick(row, PriceNames)
    IN  [ building      |-> pick(row, <<"Building", "Building Name", "BuildingName", "BuildingNameEn",
                                        "Tower", "Tower Name", "Building (EN)">>),
          unit_number   |-> pick(row, <<"Unit No", "Unit no", "Unit Number", "UnitNumber", "Unit_No",
                                        "Unit-No", "Unit#", "Unit #", "Unit", "unitno", "unitno.">>),
          area_sqft     |-> parse_number(pick(row, AreaNames)),
          price_raw     |-> price_raw,
          price         |-> parse_money(price_raw),
          property_type |-> OrNone(pick(row, <<"Property Type", "PropertyType", "PropertyTypeEn">>)),
          sub_type      |-> OrNone(pick(row, <<"Sub Type", "SubType", "SubTypeNameEn">>)),
          beds          |-> parse_number(pick(row, BedsNames)),
          city          |-> OrNone(pick(row, <<"City">>)),
          community     |-> OrNone(pick(row, <<"Community", "Project Lnd", "Project">>)),
          sub_community |-> OrNone(pick(row, <<"Sub Community", "Sub-Community", "SubCommunity">>)),
          municipality_number     |-> OrNone(pick(row, <<"Mun No", "Municipality No", "Municipality Number">>)),
          municipality_sub_number |-> OrNone(pick(row, <<"Mun Sub No", "Municipality Sub No", "Municipality Sub Number">>)),
          owner_name    |-> pick(row, <<"Name", "NameEn", "Owner Name">>),
          role          |-> pick(row, <<"Role", "Owner Type", "ProcedurePartyTypeNameEn">>),
          reg_date      |-> parse_date(pick(row, RegDateNames)),
          contacts      |-> split_contacts(pick(row, <<"Contact", "Phone", "Mobile", "Whatsapp", "Tel">>)) ]

\* ------------------------------------------------------------ the sheets
\* The rows a workbook is drawn from: one header set, the cells varying.
SheetRow(building, unit, area, price, ptype, beds, city, name, role, regis, contact) ==
    << <<"Building", building>>, <<"Unit No", unit>>, <<"Area", area>>, <<"Price", price>>,
       <<"Property Type", ptype>>, <<"Beds", beds>>, <<"City", city>>, <<"Name", name>>,
       <<"Role", role>>, <<"Regis", regis>>, <<"Contact", contact>> >>

Sheet ==
    << SheetRow("Marina Heights", "101", "1,250.50", "AED 1,200,000", "Apartment", "2", "Dubai",
                "J. Doe", "Owner", "2023-01-01", "0501234567"),
       SheetRow("Marina Heights", "101", "", "", "", "", "",
                "J. Doe", "Owner", "2023-01-01", "+971501234567, 971509999999"),
       SheetRow("Marina Heights", "101", "", "abc", "", "studio", "Abu Dhabi",
                "J. Doe", "Owner", "21-10-2023", ""),
       SheetRow("Marina Heights", "101", "", "", "", "", "",
                "J. Doe", "Owner", "21-10-2023", "0509999999"),
       SheetRow("Marina Heights", "101", "", "", "", "", "",
                "A. Khan", "Buyer", "2023-01-01", "0501234567"),
       SheetRow("Marina Heights", "101", "", "", "", "", "",
                "A. Khan", "Buyer", "2023-01-01", "00971507777777"),
       SheetRow(" Marina Heights ", "102", "n/a", "950000.0", "", "1.5", "Dubai",
                "J. Doe", "Owner", "n/a", ""),
       SheetRow("Marina Heights", "101", "", "", "", "", "",
                "J. Doe", "Owner", "", "0552223333"),
       SheetRow("", "101", "800", "700000", "", "1", "Dubai",
                "J. Doe", "Owner", "2023-01-01", "0501234567"),
       SheetRow("Marina Heights", " ", "800", "700000", "", "1", "Dubai",
                "J. Doe", "Owner", "2023-01-01", "0501234567"),
       SheetRow("Marina Heights", "101", "800", "700000", "", "1", "Dubai",
                "", "Owner", "2023-01-01", "0501234567") >>

RowIds == 1..Len(Sheet)

\* the extraction of each sheet row, evaluated once
Extracted == [r \in RowIds |-> Extract(Sheet[r])]

\* -------------------------------------------------------------- the store
AttrFields == {"area_sqft", "price", "price_raw", "property_type", "sub_type", "beds", "city",
               "community", "sub_community", "municipality_number", "municipality_sub_number"}

\* collection.insert_one(doc): the new document takes the next _id
insert_one(coll, doc) == Append(coll, doc)

\* collection.update_one({"_id": id}, {"$set": fields})
update_set(coll, id, fields) ==
    [coll EXCEPT ![id] = [f \in DOMAIN @ |-> IF f \in DOMAIN fields THEN fields[f] ELSE @[f]]]

\* a $push whose filter matches no document: nothing is written
update_push_unmatched(coll, id, owner_doc) == coll

\* collection.update_one({"_id": id}, {"$push": {"owners": owner_doc}})
update_push(coll, id, owner_doc) ==
    [coll EXCEPT ![id].owners = Append(@, owner_doc)]

\* $push with $each in place of $addToSet: the values are appended as they come
AddToSet_push(arr, vals) == arr \o vals

\* $addToSet with $each: every value not yet in the array is appended, in order
RECURSIVE AddToSet(_, _)
AddToSet(arr, vals) ==
    IF vals = <<>> THEN arr
    ELSE AddToSet(IF InSeq(Head(vals), arr) THEN arr ELSE Append(arr, Head(vals)), Tail(vals))

PosRules == {"owner_name", "role", "registration_date"}

\* The array position the positional $ is bound to.  The filter puts three separate
\* conditions on the owners array (no $elemMatch): each is satisfied by any element,
\* and $ takes the first element satisfying the one condition the server binds it to.
PositionalIndex(owners, owner_name, role, reg_date, rule) ==
    LET hit(k) == CASE rule = "owner_name" -> owners[k].owner_name = owner_name
                    [] rule = "role" -> owners[k].role = role
                    [] OTHER -> owners[k].registration_date = Str(reg_date)
    IN  Min({k \in 1..Len(owners) : hit(k)})

\* collection.update_one({"_id": id, "owners.owner_name": ..., "owners.role": ...,
\*     "owners.registration_date": ...}, {"$addToSet": {"owners.$.contacts": {"$each": nums}}})
update_addToSet(coll, id, owner_name, role, reg_date, nums, rule) ==
    LET owners  == coll[id].owners
        matches == /\ \E k \in 1..Len(owners) : owners[k].owner_name = owner_name
                   /\ \E k \in 1..Len(owners) : owners[k].role = role
                   /\ \E k \in 1..Len(owners) : owners[k].registration_date = Str(reg_date)
    IN  IF ~matches THEN coll
        ELSE LET pos == PositionalIndex(owners, owner_name, role, reg_date, rule)
             IN  [coll EXCEPT ![id].owners[pos].contacts = AddToSet(@, nums)]

KeyOf(doc) == <<doc.building_name, doc.unit_number>>

\* the cache left empty at the start of a run, whatever the store holds
SeedCache_empty(coll) == [key \in {} |-> [_id |-> 0, owners |-> <<>>]]

\* existing_cache = {(building_name, unit_number): {"_id", "owners"} for doc in find()}
SeedCache(coll) ==
    [key \in {KeyOf(coll[k]) : k \in 1..Len(coll)} |->
        LET id == Max({k \in 1..Len(coll) : KeyOf(coll[k]) = key})
        IN  [_id |-> id, owners |-> coll[id].owners]]

\* ------------------------------------------------------- owner matcher
\* find_owner_indices reading the date from a field the entries do not have
find_owner_indices_wrong_field(owners, owner_name, role, reg_date) ==
    LET same_date == {k \in 1..Len(owners) :
                         /\ owners[k].owner_name = owner_name
                         /\ owners[k].role = role
                         /\ "" = reg_date}
        any_date  == {k \in 1..Len(owners) :
                         /\ owners[k].owner_name = owner_name
                         /\ owners[k].role = role}
    IN  << IF same_date = {} THEN 0 ELSE Min(same_date),
           IF any_date = {} THEN 0 ELSE Min(any_date) >>

\* find_owner_indices comparing the stored date as it is, without `or ""`
find_owner_indices_strict(owners, owner_name, role, reg_date) ==
    LET same_date == {k \in 1..Len(owners) :
                         /\ owners[k].owner_name = owner_name
                         /\ owners[k].role = role
                         /\ owners[k].registration_date = Str(reg_date)}
        any_date  == {k \in 1..Len(owners) :
                         /\ owners[k].owner_name = owner_name
                         /\ owners[k].role = role}
    IN  << IF same_date = {} THEN 0 ELSE Min(same_date),
           IF any_date = {} THEN 0 ELSE Min(any_date) >>

\* find_owner_indices matching an entry on (owner_name, role) alone
find_owner_indices_any_date(owners, owner_name, role, reg_date) ==
    LET any_date  == {k \in 1..Len(owners) :
                         /\ owners[k].owner_name = owner_name
                         /\ owners[k].role = role}
    IN  << IF any_date = {} THEN 0 ELSE Min(any_date),
           IF any_date = {} THEN 0 ELSE Min(any_date) >>

\* find_owner_indices looking for the date only in the first entry of the owner
find_owner_indices_first_entry(owners, owner_name, role, reg_date) ==
    LET any_date  == {k \in 1..Len(owners) :
                         /\ owners[k].owner_name = owner_name
                         /\ owners[k].role = role}
        same_date == {k \in any_date :
                         /\ k = Min(any_date)
                         /\ OrEmpty(owners[k].registration_date) = reg_date}
    IN  << IF same_date = {} THEN 0 ELSE Min(same_date),
           IF any_date = {} THEN 0 ELSE Min(any_date) >>

\* 0 stands for None; positions count from 1
find_owner_indices(owners, owner_name, role, reg_date) ==
    LET same_date == {k \in 1..Len(owners) :
                         /\ owners[k].owner_name = owner_name
                         /\ owners[k].role = role
                         /\ OrEmpty(owners[k].registration_date) = reg_date}
        any_date  == {k \in 1..Len(owners) :
                         /\ owners[k].owner_name = owner_name
                         /\ owners[k].role = role}
    IN  << IF same_date = {} THEN 0 ELSE Min(same_date),
           IF any_date = {} THEN 0 ELSE Min(any_date) >>

\* new_nums without the `c not in exist_contacts` test
NewNums_unfiltered(contacts, exist_contacts) == SelectSeq(contacts, LAMBDA c : c # "")

\* new_nums = [c for c in contacts if c and c not in exist_contacts]
NewNums(contacts, exist_contacts) ==
    SelectSeq(contacts, LAMBDA c : c # "" /\ ~InSeq(c, exist_contacts))

OwnerDoc(x) ==
    [owner_name |-> x.owner_name, role |-> x.role, contacts |-> x.contacts,
     registration_date |-> Str(x.reg_date)]

\* the top-level fields of a row, as the update and insert paths write them
RowAttrs(x) ==
    [area_sqft |-> x.area_sqft, price |-> x.price, price_raw |-> OrNone(x.price_raw),
     property_type |-> x.property_type, sub_type |-> x.sub_type, beds |-> x.beds,
     city |-> x.city, community |-> x.community, sub_community |-> x.sub_community,
     municipality_number |-> x.municipality_number,
     municipality_sub_number |-> x.municipality_sub_number]

\* set_fields without its filter: every field of the row is written
set_fields_unfiltered(x) == RowAttrs(x)

\* set_fields = {k: v for k, v in {...}.items() if v is not None and v != ""}
set_fields(x) ==
    LET all == RowAttrs(x)
    IN  [f \in {g \in DOMAIN all : all[g] # Null /\ all[g] # Str("")} |-> all[f]]

\* new_doc holding only the fields the row provides, as the update path writes them
NewDoc_only_provided(x) ==
    [building_name |-> x.building, unit_number |-> x.unit_number, owners |-> <<OwnerDoc(x)>>]
        @@ set_fields(x)

NewDoc(x) ==
    [building_name |-> x.building, unit_number |-> x.unit_number, owners |-> <<OwnerDoc(x)>>]
        @@ RowAttrs(x)

\* the skip check without its owner-name test
Skipped_no_owner(x) == x.building = "" \/ x.unit_number = ""

\* if not building or not unit_number or not owner_name: continue
Skipped(x) == x.building = "" \/ x.unit_number = "" \/ x.owner_name = ""

\* ------------------------------------------------- reconciliation, one row
\* The store operations the row issues when none fails, in order.
StorePlan(cache, x) ==
    IF Skipped(x) THEN <<>>
    ELSE IF <<x.building, x.unit_number>> \notin DOMAIN cache THEN <<"insert_one">>
    ELSE LET owners == cache[<<x.building, x.unit_number>>].owners
             idx    == find_owner_indices(owners, x.owner_name, x.role, x.reg_date)
         IN  (IF DOMAIN set_fields(x) # {} THEN <<"update_set">> ELSE <<>>)
             \o (IF idx[1] = 0 THEN <<"update_push">>
                 ELSE IF NewNums(x.contacts, owners[idx[1]].contacts) # <<>>
                 THEN <<"update_addToSet">>
                 ELSE <<>>)

\* one issued store operation and whether it returned
Op(name, ok) == [op |-> name, ok |-> ok]

\* the operations issued when the fail-th one raises (fail = 0: none raises)
Issued(plan, fail) ==
    [k \in 1..(IF fail = 0 THEN Len(plan) ELSE fail) |-> Op(plan[k], k # fail)]

\* the exception swallowed: the loop goes on with the next row
Raise_swallowed(S, done, issued) == [S EXCEPT !.store = done, !.ops = issued]

\* A store call raises: no try/except surrounds it, so the exception leaves main().
\* `done` is the store with the row's earlier operations applied.
Raise(S, done, issued) == [S EXCEPT !.store = done, !.ops = issued, !.ok = FALSE]

\* the insert path leaving the cache as it was
CacheAfterInsert_forgotten(cache, key, id, owner_doc) == cache

\* existing_cache[key] = {"_id": res.inserted_id, "owners": [owner_doc]}
CacheAfterInsert(cache, key, id, owner_doc) ==
    (key :> [_id |-> id, owners |-> <<owner_doc>>]) @@ cache

\* The body of the loop (lines 207-338) on run state S for the extracted row x.
\* fail = k > 0: the k-th store operation of the row raises, which ends the run;
\* everything the row did before it stays done.
process_row(S, x, fail, rule) ==
    IF Skipped(x) THEN [S EXCEPT !.ops = <<>>]
    ELSE
    LET key    == <<x.building, x.unit_number>>
        plan   == StorePlan(S.cache, x)
        issued == Issued(plan, fail)
    IN  IF key \in DOMAIN S.cache
        THEN LET doc_id == S.cache[key]._id
                 owners == S.cache[key].owners
                 sf     == set_fields(x)
                 hasSet == DOMAIN sf # {}
                 idx    == find_owner_indices(owners, x.owner_name, x.role, x.reg_date)
                 new_nums == IF idx[1] # 0
                             THEN NewNums(x.contacts, owners[idx[1]].contacts)
                             ELSE <<>>
                 store1 == IF hasSet THEN update_set(S.store, doc_id, sf) ELSE S.store
                 counted == [S EXCEPT !.updated = @ + 1, !.ops = issued]
             IN  IF hasSet /\ fail = 1
                 THEN Raise(S, S.store, issued)
                 ELSE IF fail # 0
                 THEN Raise(S, store1, issued)
                 ELSE IF idx[1] # 0
                 THEN IF new_nums # <<>>
                      THEN [counted EXCEPT
                              !.store = update_addToSet(store1, doc_id, x.owner_name, x.role,
                                                        x.reg_date, new_nums, rule),
                              !.cache[key].owners[idx[1]].contacts = @ \o new_nums,
                              !.merged = @ + 1]
                      ELSE [counted EXCEPT !.store = store1]
                 ELSE IF idx[2] # 0
                 THEN [counted EXCEPT
                         !.store = update_push(store1, doc_id, OwnerDoc(x)),
                         !.cache[key].owners = Append(@, OwnerDoc(x)),
                         !.newdate = @ + 1]
                 ELSE [counted EXCEPT
                         !.store = update_push(store1, doc_id, OwnerDoc(x)),
                         !.cache[key].owners = Append(@, OwnerDoc(x)),
                         !.newowner = @ + 1]
        ELSE IF fail # 0
             THEN Raise(S, S.store, issued)
             ELSE [S EXCEPT
                     !.store = insert_one(@, NewDoc(x)),
                     !.cache = CacheAfterInsert(@, key, Len(S.store) + 1, OwnerDoc(x)),
                     !.inserted = @ + 1,
                     !.ops = issued]

\* ------------------------------------------------------ initial stores
NullAttrs == [f \in AttrFields |-> Null]

\* a record this importer wrote on an earlier workbook
SeedImported ==
    << [building_name |-> "Marina Heights", unit_number |-> "101",
        owners |-> << [owner_name |-> "A. Khan", role |-> "Buyer",
                       contacts |-> <<"+971501234567">>,
                       registration_date |-> Str("2023-01-01")] >>]
       @@ [NullAttrs EXCEPT !.city = Str("Sharjah"), !.price = FloatNum(500000, 0),
                            !.price_raw = Str("500,000"), !.beds = IntNum(3)] >>

\* a record whose owner entry carries no registration date (the matcher reads
\* o.get("registration_date") or "")
SeedLegacy ==
    << [building_name |-> "Marina Heights", unit_number |-> "101",
        owners |-> << [owner_name |-> "J. Doe", role |-> "Owner",
                       contacts |-> <<"+971501234567">>,
                       registration_date |-> Null] >>]
       @@ [NullAttrs EXCEPT !.city = Str("Dubai"), !.property_type = Str("Villa")] >>

SeedStores == {<<>>, SeedImported, SeedLegacy}

Workbooks == UNION {[1..n -> RowIds] : n \in 0..MaxRows}

\* ------------------------------------------------------------- the run
RunState ==
    [store |-> store, cache |-> existing_cache, inserted |-> inserted, updated |-> updated,
     merged |-> owners_merged_contacts, newdate |-> owners_added_same_owner_new_date,
     newowner |-> owners_added_new_owner, ops |-> store_ops, ok |-> TRUE]

\* no helper is being called on its own
NoCall == [fn |-> "none"]

NoRet == [done |-> FALSE]

\* main() up to the loop: the workbook is loaded, the cache seeded, the counters zero
Init ==
    /\ store \in SeedStores
    /\ df \in Workbooks
    /\ posRule \in PosRules
    /\ existing_cache = SeedCache(store)
    /\ store0 = store
    /\ total_rows = Len(df)
    /\ i = 0
    /\ pc = "loop"
    /\ run = 1
    /\ inserted = 0
    /\ updated = 0
    /\ owners_merged_contacts = 0
    /\ owners_added_same_owner_new_date = 0
    /\ owners_added_new_owner = 0
    /\ summary = <<>>
    /\ store_ops = <<>>
    /\ origin = store
    /\ resumed = FALSE
    /\ call = NoCall
    /\ ret = NoRet

\* one iteration of `for _, row in df.iterrows()`
ProcessRow ==
    /\ pc = "loop"
    /\ i < Len(df)
    /\ \E fail \in 0..2 :
         /\ fail <= Len(StorePlan(existing_cache, Extracted[df[i + 1]]))
         /\ \E R \in {process_row(RunState, Extracted[df[i + 1]], fail, posRule)} :
                /\ store' = R.store
                /\ existing_cache' = R.cache
                /\ inserted' = R.inserted
                /\ updated' = R.updated
                /\ owners_merged_contacts' = R.merged
                /\ owners_added_same_owner_new_date' = R.newdate
                /\ owners_added_new_owner' = R.newowner
                /\ store_ops' = R.ops
                /\ pc' = IF R.ok THEN "loop" ELSE "aborted"
                /\ i' = IF R.ok THEN i + 1 ELSE i
    /\ UNCHANGED <<df, run, total_rows, summary, store0, posRule, origin, resumed, call, ret>>

\* the loop is exhausted: the summary is printed (lines 340-348)
Finish ==
    /\ pc = "loop"
    /\ i = Len(df)
    /\ pc' = "done"
    /\ summary' = << [total_rows |-> total_rows, inserted |-> inserted, updated |-> updated,
                      owners_merged_contacts |-> owners_merged_contacts,
                      owners_added_same_owner_new_date |-> owners_added_same_owner_new_date,
                      owners_added_new_owner |-> owners_added_new_owner] >>
    /\ UNCHANGED <<store, existing_cache, df, i, run, total_rows, inserted, updated,
                   owners_merged_contacts, owners_added_same_owner_new_date,
                   owners_added_new_owner, store_ops, store0, posRule, origin, resumed,
                   call, ret>>

\* the script is started again on the same workbook: main() from its first line
Rerun ==
    /\ pc = "done"
    /\ run = 1
    /\ run' = 2
    /\ existing_cache' = SeedCache(store)
    /\ store0' = store
    /\ total_rows' = Len(df)
    /\ i' = 0
    /\ pc' = "loop"
    /\ inserted' = 0
    /\ updated' = 0
    /\ owners_merged_contacts' = 0
    /\ owners_added_same_owner_new_date' = 0
    /\ owners_added_new_owner' = 0
    /\ summary' = <<>>
    /\ store_ops' = <<>>
    /\ UNCHANGED <<store, df, posRule, origin, resumed, call, ret>>

Next == ProcessRow \/ Finish \/ Rerun

Spec == Init /\ [][Next]_vars

\* ================================================================ claims
\* the row the loop is about to process, and the latest row it processed
NextRow == Extracted[df[i + 1]]

LastRow == Extracted[df[i]]

AtRow == pc = "loop" /\ i < Len(df)

\* a row lacking one of the three required identifiers
MissingIdentifier(x) == x.building = "" \/ x.unit_number = "" \/ x.owner_name = ""

RowKey(x) == <<x.building, x.unit_number>>

\* the (owner_name, role, registration_date) key of an entry; no date reads as ""
OwnerKey(o) == <<o.owner_name, o.role, OrEmpty(o.registration_date)>>

UniqueOwners(owners) ==
    \A a, b \in 1..Len(owners) : OwnerKey(owners[a]) = OwnerKey(owners[b]) => a = b

\* the documents of the store that carry the key
DocsOf(coll, key) == {d \in 1..Len(coll) : KeyOf(coll[d]) = key}

C2_OwnerEntryUniqueness ==
    /\ \A d \in 1..Len(store) : UniqueOwners(store[d].owners)
    /\ \A key \in DOMAIN existing_cache : UniqueOwners(existing_cache[key].owners)

\* a row has repeated the key of an entry (its contacts were merged) in a record
\* that also received a further entry
C2_Witness ==
    /\ owners_merged_contacts >= 1
    /\ owners_added_same_owner_new_date + owners_added_new_owner >= 1
    /\ \E d \in 1..Len(store) : Len(store[d].owners) >= 2

\* the contacts of the first n rows that carry the unit and owner-entry key of x,
\* in order of first appearance
RECURSIVE UnionOfContacts(_, _, _)
UnionOfContacts(n, x, acc) ==
    IF n = 0 THEN acc
    ELSE LET y == Extracted[df[n]]
             same == /\ ~MissingIdentifier(y)
                     /\ y.building = x.building /\ y.unit_number = x.unit_number
                     /\ y.owner_name = x.owner_name /\ y.role = x.role
                     /\ y.reg_date = x.reg_date
         IN  UnionOfContacts(n - 1, x,
                 IF same
                 THEN y.contacts \o SelectSeq(acc, LAMBDA c : ~InSeq(c, y.contacts))
                 ELSE acc)

StoreOwners(key) ==
    IF DocsOf(store, key) = {} THEN <<>> ELSE store[Max(DocsOf(store, key))].owners

\* C3 (merge correctness): from an empty store, for each key (building, unit,
\* owner_name, role, registration_date) of a processed row the unit's record in
\* the store has exactly one owner entry with that key, whose contacts are the
\* union of the contacts of all rows carrying the key, in order of first appearance.
C3_MergeCorrectness ==
    (store0 = <<>> /\ run = 1) =>
        \A k \in 1..i :
            LET x == Extracted[df[k]]
            IN  ~MissingIdentifier(x) =>
                  LET owners == StoreOwners(RowKey(x))
                      es == {e \in 1..Len(owners) :
                                OwnerKey(owners[e]) = <<x.owner_name, x.role, x.reg_date>>}
                  IN  /\ Cardinality(es) = 1
                      /\ \A e \in es : owners[e].contacts = UnionOfContacts(i, x, <<>>)

\* C4 as the specification words it: Row B's second number comes out with a '+'.
C4_AsStated ==
    (store0 = <<>> /\ run = 1 /\ i = 2 /\ df[1] = 1 /\ df[2] = 2) =>
        /\ Len(store) = 1
        /\ Len(store[1].owners) = 1
        /\ store[1].owners[1].contacts = <<"+971501234567", "+971509999999">>

\* C4 (worked example, amended): on an empty store Row A (sheet row 1) inserts one
\* record whose single owner entry has contacts <<"+971501234567">>; Row B (sheet
\* row 2) then adds no owner entry and leaves the entry's contacts equal to
\* <<"+971501234567", "971509999999">>: a number written without '+' or a leading
\* 0 is kept as written.
C4_WorkedExample ==
    /\ (store0 = <<>> /\ run = 1 /\ i = 1 /\ df[1] = 1) =>
          /\ Len(store) = 1
          /\ KeyOf(store[1]) = <<"Marina Heights", "101">>
          /\ store[1].owners = << [owner_name |-> "J. Doe", role |-> "Owner",
                                   contacts |-> <<"+971501234567">>,
                                   registration_date |-> Str("2023-01-01")] >>
          /\ inserted = 1
    /\ (store0 = <<>> /\ run = 1 /\ i = 2 /\ df[1] = 1 /\ df[2] = 2) =>
          /\ Len(store) = 1
          /\ store[1].owners = << [owner_name |-> "J. Doe", role |-> "Owner",
                                   contacts |-> <<"+971501234567", "971509999999">>,
                                   registration_date |-> Str("2023-01-01")] >>
          /\ inserted = 1
          /\ owners_added_same_owner_new_date = 0
          /\ owners_added_new_owner = 0

\* Row A then Row B have been processed on an empty store
C4_Witness ==
    /\ store0 = <<>> /\ run = 1 /\ i = 2 /\ df[1] = 1 /\ df[2] = 2
    /\ owners_merged_contacts = 1

Blank(v) == v = Null \/ v = Str("")

SetFailed(ops) == \E k \in 1..Len(ops) : ops[k].op = "update_set" /\ ~ops[k].ok

\* C5 (never-clobber): when a row hits an existing record, every attribute whose
\* incoming value is null or empty keeps its stored value, every other attribute
\* takes the incoming value (unless the field update itself failed), no other
\* record's attributes change, and no field update is issued when every incoming
\* attribute is null or empty.
C5_NeverClobber ==
    [][ (AtRow /\ ~MissingIdentifier(NextRow) /\ RowKey(NextRow) \in DOMAIN existing_cache) =>
          LET id  == existing_cache[RowKey(NextRow)]._id
              inc == RowAttrs(NextRow)
          IN  /\ Len(store') = Len(store)
              /\ \A f \in AttrFields : Blank(inc[f]) => store'[id][f] = store[id][f]
              /\ \A f \in AttrFields :
                    (~Blank(inc[f]) /\ ~SetFailed(store_ops')) => store'[id][f] = inc[f]
              /\ \A d \in 1..Len(store) : \A f \in AttrFields :
                    d # id => store'[d][f] = store[d][f]
              /\ (\A f \in AttrFields : Blank(inc[f])) =>
                    \A k \in 1..Len(store_ops') : store_ops'[k].op # "update_set"
      ]_vars

\* a row with every attribute empty has just merged contacts into a record that
\* keeps a stored city: only the owner update was issued
C5_Witness ==
    /\ pc = "loop" /\ i >= 1
    /\ ~MissingIdentifier(LastRow)
    /\ \A f \in AttrFields : Blank(RowAttrs(LastRow)[f])
    /\ store_ops = <<Op("update_addToSet", TRUE)>>
    /\ \E d \in DocsOf(store, RowKey(LastRow)) : store[d].city # Null

\* C6 (skip rule): a row whose building, unit number or owner name is empty
\* issues no store operation and changes neither the store, the cache nor any of
\* the inserted, updated and owner counters; the loop goes on with the next row,
\* and the row stays counted in total_rows, which is the length of the sheet.
C6_SkipRule ==
    /\ [][ (AtRow /\ MissingIdentifier(NextRow)) =>
             /\ store' = store
             /\ existing_cache' = existing_cache
             /\ store_ops' = <<>>
             /\ inserted' = inserted
             /\ updated' = updated
             /\ owners_merged_contacts' = owners_merged_contacts
             /\ owners_added_same_owner_new_date' = owners_added_same_owner_new_date
             /\ owners_added_new_owner' = owners_added_new_owner
             /\ total_rows' = total_rows
             /\ pc' = "loop"
             /\ i' = i + 1
         ]_vars
    /\ [](total_rows = Len(df))

\* a run has completed on a sheet holding a skipped row and an imported one: the
\* summary counts both as read, and only the imported one as inserted or updated
C6_Witness ==
    /\ pc = "done"
    /\ \E k \in 1..Len(df) : MissingIdentifier(Extracted[df[k]])
    /\ inserted + updated >= 1
    /\ inserted + updated < Len(df)
    /\ summary[1].total_rows = Len(df)

SameOwner(o, x) == o.owner_name = x.owner_name /\ o.role = x.role

CandidateOf(x) ==
    [owner_name |-> x.owner_name, role |-> x.role, contacts |-> x.contacts,
     registration_date |-> Str(x.reg_date)]

Failed(ops) == ops # <<>> /\ ~ops[Len(ops)].ok

\* processed rows of one unit, owner and role with different dates have two entries
TwoDatesTwoEntries ==
    \A k1, k2 \in 1..i :
        LET x == Extracted[df[k1]]
            y == Extracted[df[k2]]
        IN  (/\ ~MissingIdentifier(x) /\ ~MissingIdentifier(y)
             /\ RowKey(x) = RowKey(y)
             /\ x.owner_name = y.owner_name /\ x.role = y.role
             /\ x.reg_date # y.reg_date)
            => \E e1, e2 \in 1..Len(StoreOwners(RowKey(x))) :
                 /\ e1 # e2
                 /\ OwnerKey(StoreOwners(RowKey(x))[e1]) = <<x.owner_name, x.role, x.reg_date>>
                 /\ OwnerKey(StoreOwners(RowKey(x))[e2]) = <<y.owner_name, y.role, y.reg_date>>

\* C7 (new-date append): when the unit has an entry with the row's (owner_name,
\* role) but none of them has the row's registration_date, and no store call
\* fails, exactly one entry with the row's date and contacts is appended at the end
\* of the unit's owner list in the store and in the cache, the existing entries and
\* the other records are unchanged, and of the insert and owner counters only the
\* same-owner-new-date counter grows; so two processed rows that share (building,
\* unit, owner_name, role) and differ in date have two distinct entries.
C7_NewDateAppend ==
    /\ [][ (/\ AtRow /\ ~MissingIdentifier(NextRow)
            /\ RowKey(NextRow) \in DOMAIN existing_cache
            /\ \E e \in 1..Len(StoreOwners(RowKey(NextRow))) :
                   SameOwner(StoreOwners(RowKey(NextRow))[e], NextRow)
            /\ \A e \in 1..Len(StoreOwners(RowKey(NextRow))) :
                   SameOwner(StoreOwners(RowKey(NextRow))[e], NextRow)
                   => OrEmpty(StoreOwners(RowKey(NextRow))[e].registration_date) # NextRow.reg_date
            /\ ~Failed(store_ops')) =>
             LET key == RowKey(NextRow)
                 id  == existing_cache[key]._id
             IN  /\ Len(store') = Len(store)
                 /\ store'[id].owners = Append(store[id].owners, CandidateOf(NextRow))
                 /\ existing_cache'[key].owners =
                        Append(existing_cache[key].owners, CandidateOf(NextRow))
                 /\ \A d \in 1..Len(store) : d # id => store'[d].owners = store[d].owners
                 /\ owners_added_same_owner_new_date' = owners_added_same_owner_new_date + 1
                 /\ owners_merged_contacts' = owners_merged_contacts
                 /\ owners_added_new_owner' = owners_added_new_owner
                 /\ inserted' = inserted
         ]_vars
    /\ []TwoDatesTwoEntries

\* the latest row has appended a second dated entry for an owner of its unit
C7_Witness ==
    /\ pc = "loop" /\ i >= 1
    /\ store_ops # <<>> /\ store_ops[Len(store_ops)] = Op("update_push", TRUE)
    /\ owners_added_same_owner_new_date >= 1
    /\ LET owners == StoreOwners(RowKey(LastRow))
       IN  /\ owners[Len(owners)] = CandidateOf(LastRow)
           /\ \E e \in 1..(Len(owners) - 1) :
                 /\ SameOwner(owners[e], LastRow)
                 /\ OrEmpty(owners[e].registration_date) # LastRow.reg_date

\* C8 (StoreUnavailable is fatal and not atomic): when a store operation of a row
\* fails the run is aborted at that row, prints no summary and counts nothing for
\* the row; the store keeps every earlier mutation, and when it was the owner
\* update that failed also the row's attribute update; an aborted run does nothing
\* further.
C8_StoreFailureFatal ==
    /\ [][ (AtRow /\ Failed(store_ops')) =>
             /\ pc' = "aborted"
             /\ i' = i
             /\ summary' = <<>>
             /\ existing_cache' = existing_cache
             /\ inserted' = inserted /\ updated' = updated
             /\ owners_merged_contacts' = owners_merged_contacts
             /\ owners_added_same_owner_new_date' = owners_added_same_owner_new_date
             /\ owners_added_new_owner' = owners_added_new_owner
             /\ Len(store') = Len(store)
             /\ \A d \in 1..Len(store) :
                   /\ store'[d].owners = store[d].owners
                   /\ KeyOf(store'[d]) = KeyOf(store[d])
                   /\ \A f \in AttrFields :
                         store'[d][f] =
                            IF /\ Len(store_ops') = 2
                               /\ d = existing_cache[RowKey(NextRow)]._id
                               /\ ~Blank(RowAttrs(NextRow)[f])
                            THEN RowAttrs(NextRow)[f]
                            ELSE store[d][f]
         ]_vars
    /\ [][ (pc = "aborted" /\ run' = run) =>
             (store' = store /\ i' = i /\ pc' = "aborted" /\ summary' = summary) ]_vars
    /\ [](pc = "aborted" => summary = <<>>)

\* the owner update of a row failed after its attribute update went through, in
\* a run that had already inserted a record
C8_Witness ==
    /\ pc = "aborted"
    /\ inserted >= 1
    /\ Len(store_ops) = 2
    /\ store_ops[1] = Op("update_set", TRUE)
    /\ ~store_ops[2].ok
    /\ \E f \in AttrFields :
          /\ ~Blank(RowAttrs(NextRow)[f])
          /\ store[existing_cache[RowKey(NextRow)]._id][f] = RowAttrs(NextRow)[f]
          /\ store0 = <<>>

\* a cell text without any digit: no number, amount or date can be read from it
NoDigits(text) == text # "" /\ KeepChars(text, Digits) = ""

\* per sheet row, the parsed fields whose text is unparseable, evaluated once
Malformed ==
    [r \in RowIds |->
        [fields |-> {f \in {"area_sqft", "price", "beds"} :
                        NoDigits(pick(Sheet[r], CASE f = "area_sqft" -> AreaNames
                                                  [] f = "price" -> PriceNames
                                                  [] OTHER -> BedsNames))},
         date   |-> NoDigits(pick(Sheet[r], RegDateNames))]]

BadFields(r) == Malformed[r].fields

BadDate(r) == Malformed[r].date

\* C9 (MalformedValue is absorbed): a row with its three identifiers and an
\* unparseable price, area, beds or registration date reads that field as null
\* (the date as ""), and unless a store call fails it is processed like any row:
\* the loop goes on, the row is counted as inserted or updated, its owner entry is
\* in the unit's record, and the unparseable field leaves the stored value of an
\* existing record as it was (null in a new record).
C9_MalformedAbsorbed ==
    [][ (/\ AtRow /\ ~MissingIdentifier(NextRow)
         /\ (BadFields(df[i + 1]) # {} \/ BadDate(df[i + 1]))) =>
          /\ \A f \in BadFields(df[i + 1]) : NextRow[f] = Null
          /\ BadDate(df[i + 1]) => NextRow.reg_date = ""
          /\ ~Failed(store_ops') =>
               /\ pc' = "loop"
               /\ i' = i + 1
               /\ inserted' + updated' = inserted + updated + 1
               /\ DocsOf(store', RowKey(NextRow)) # {}
               /\ \A d \in DocsOf(store', RowKey(NextRow)) :
                     /\ \E e \in 1..Len(store'[d].owners) :
                           OwnerKey(store'[d].owners[e]) =
                              <<NextRow.owner_name, NextRow.role, NextRow.reg_date>>
                     /\ \A f \in BadFields(df[i + 1]) :
                           store'[d][f] = IF d \in 1..Len(store) THEN store[d][f] ELSE Null
      ]_vars

\* a row with an unparseable price has just updated a record that keeps its price
C9_Witness ==
    /\ pc = "loop" /\ i >= 1
    /\ ~MissingIdentifier(LastRow)
    /\ "price" \in BadFields(df[i])
    /\ store_ops # <<>> /\ ~Failed(store_ops)
    /\ updated >= 1
    /\ \E d \in DocsOf(store, RowKey(LastRow)) : store[d].price # Null

\* C10 (unit identity and lifecycle): the store holds at most one record per
\* (building_name, unit_number); no step removes a record or changes its key; a
\* record is added only by a row whose key no record of the store carries, and such
\* a row adds exactly one record with its key; a row whose key is in the store
\* takes the update path.
C10_UnitIdentity ==
    /\ [](\A a, b \in 1..Len(store) : KeyOf(store[a]) = KeyOf(store[b]) => a = b)
    /\ [][ /\ Len(store') >= Len(store)
           /\ \A d \in 1..Len(store) : KeyOf(store'[d]) = KeyOf(store[d])
           /\ Len(store') > Len(store) =>
                /\ AtRow /\ ~MissingIdentifier(NextRow)
                /\ Len(store') = Len(store) + 1
                /\ KeyOf(store'[Len(store')]) = RowKey(NextRow)
                /\ DocsOf(store, RowKey(NextRow)) = {}
                /\ inserted' = inserted + 1 /\ updated' = updated
           /\ (AtRow /\ ~MissingIdentifier(NextRow) /\ ~Failed(store_ops')) =>
                IF DocsOf(store, RowKey(NextRow)) = {}
                THEN Len(store') = Len(store) + 1
                ELSE /\ Len(store') = Len(store)
                     /\ updated' = updated + 1 /\ inserted' = inserted
         ]_vars

\* two units are in the store, one inserted by this run and then updated by a
\* later row
C10_Witness ==
    /\ Len(store) >= 2
    /\ inserted >= 1 /\ updated >= 1
    /\ i >= 2
    /\ \E k \in 1..(i - 1) :
          /\ ~MissingIdentifier(Extracted[df[k]])
          /\ ~MissingIdentifier(LastRow)
          /\ RowKey(Extracted[df[k]]) = RowKey(LastRow)
          /\ DocsOf(store0, RowKey(LastRow)) = {}

\* ------------------------------------------- the helpers called on their own
\* main() is not running: no workbook, an empty store, nothing counted
NoRun ==
    /\ store = <<>>
    /\ existing_cache = SeedCache(<<>>)
    /\ df = <<>>
    /\ posRule = "owner_name"
    /\ store0 = <<>>
    /\ origin = <<>>
    /\ resumed = FALSE
    /\ total_rows = 0
    /\ i = 0
    /\ pc = "idle"
    /\ run = 0
    /\ inserted = 0
    /\ updated = 0
    /\ owners_merged_contacts = 0
    /\ owners_added_same_owner_new_date = 0
    /\ owners_added_new_owner = 0
    /\ summary = <<>>
    /\ store_ops = <<>>

runVars == <<store, existing_cache, df, i, pc, run, total_rows, inserted, updated,
             owners_merged_contacts, owners_added_same_owner_new_date,
             owners_added_new_owner, summary, store_ops, store0, posRule, origin, resumed>>

\* ---- pick(row, candidates)
MaxCols == 2

PickHeaders == {"Name", "NAME", "Owner Name", "Building Name"}

PickCells == {"", " ", "X", " Y "}

\* rows of one to MaxCols columns; a frame's column labels are distinct
PickRows ==
    {r \in UNION {[1..n -> PickHeaders \X PickCells] : n \in 1..MaxCols} :
        \A j, k \in 1..Len(r) : j # k => r[j][1] # r[k][1]}

PickCandidates ==
    {<<"Name">>, <<"Name", "Owner Name">>, <<"Owner Name", "Name">>, <<"Building", "Name">>}

InitPick ==
    /\ NoRun
    /\ call \in {[fn |-> "pick", row |-> r, candidates |-> c] : r \in PickRows, c \in PickCandidates}
    /\ ret = NoRet

CallPick ==
    /\ call.fn = "pick"
    /\ ~ret.done
    /\ ret' = [done |-> TRUE, v |-> pick(call.row, call.candidates)]
    /\ UNCHANGED <<call, runVars>>

SpecPick == InitPick /\ [][CallPick]_vars

\* the columns whose header equals / contains candidate c, with a non-empty trimmed cell
ExactCols(row, c) ==
    {k \in 1..Len(row) : lower(row[k][1]) = lower(c) /\ strip(row[k][2]) # ""}

PartialCols(row, c) ==
    {k \in 1..Len(row) : contains(lower(row[k][1]), lower(c)) /\ strip(row[k][2]) # ""}

\* C11: pick prefers exact matches.  If some candidate equals a header
\* case-insensitively and that column's trimmed value is non-empty, pick
\* returns the value of the first such candidate in candidate order, whatever
\* headers merely contain a candidate; only when no exact match yields a value
\* does it return the first non-empty value of a header containing a candidate
\* (candidates in order); it returns "" when neither pass yields a value.
C11_PickExactFirst ==
    (call.fn = "pick" /\ ret.done) =>
        LET row   == call.row
            cands == call.candidates
            exact == {c \in 1..Len(cands) : ExactCols(row, cands[c]) # {}}
            part  == {c \in 1..Len(cands) : PartialCols(row, cands[c]) # {}}
        IN  IF exact # {}
            THEN ret.v \in {strip(row[k][2]) : k \in ExactCols(row, cands[Min(exact)])}
            ELSE IF part # {}
            THEN ret.v = strip(row[Min(PartialCols(row, cands[Min(part)]))][2])
            ELSE ret.v = ""

\* ---- clean_phone(val)
MaxPhoneLen == 4

PhoneChars == {"0", "5", "+", ".", " "}

\* every text of at most n characters over an alphabet
RECURSIVE Texts(_, _)
Texts(n, alphabet) ==
    IF n = 0 THEN {""}
    ELSE LET shorter == Texts(n - 1, alphabet)
         IN  shorter \cup {t \o c : t \in shorter, c \in alphabet}

PhoneTexts == Texts(MaxPhoneLen, PhoneChars)

InitCleanPhone ==
    /\ NoRun
    /\ call \in {[fn |-> "clean_phone", val |-> t] : t \in PhoneTexts}
    /\ ret = NoRet

CallCleanPhone ==
    /\ call.fn = "clean_phone"
    /\ ~ret.done
    /\ ret' = [done |-> TRUE, v |-> clean_phone(call.val)]
    /\ UNCHANGED <<call, runVars>>

SpecCleanPhone == InitCleanPhone /\ [][CallCleanPhone]_vars

\* digits with at most one '+', which can only be the first character
PhoneShaped(t) ==
    \A k \in 1..Len(t) : Ch(t, k) \in Digits \/ (k = 1 /\ Ch(t, k) = "+")

\* what is left of a text once a trailing ".0" is cut and everything but
\* digits and '+' is dropped
PhoneSymbols(t) ==
    KeepChars(IF endswith(strip(t), ".0") THEN SubSeq(strip(t), 1, Len(strip(t)) - 2)
              ELSE strip(t),
              Digits \cup {"+"})

\* C12: clean_phone output shape.  The result is the empty string or a string
\* of digits with at most one '+', which can only be its first character; a
\* trailing ".0" is removed before non-digit characters are dropped, a leading
\* "00" becomes "+", and a leading "05" becomes "+9715".
C12_CleanPhoneShape ==
    (call.fn = "clean_phone" /\ ret.done) =>
        /\ ret.v = "" \/ PhoneShaped(ret.v)
        /\ endswith(strip(call.val), "5.0") => endswith(ret.v, "5")
        /\ startswith(PhoneSymbols(call.val), "00") =>
               ret.v = "+" \o SubSeq(PhoneSymbols(call.val), 3, Len(PhoneSymbols(call.val)))
        /\ startswith(PhoneSymbols(call.val), "05") =>
               ret.v = "+9715" \o SubSeq(PhoneSymbols(call.val), 3, Len(PhoneSymbols(call.val)))

\* ---- split_contacts(raw)
MaxContactLen == 5

ContactChars == {"0", "5", "+", ",", " "}

ContactTexts == Texts(MaxContactLen, ContactChars)

InitSplitContacts ==
    /\ NoRun
    /\ call \in {[fn |-> "split_contacts", raw |-> t] : t \in ContactTexts}
    /\ ret = NoRet

CallSplitContacts ==
    /\ call.fn = "split_contacts"
    /\ ~ret.done
    /\ ret' = [done |-> TRUE, v |-> split_contacts(call.raw)]
    /\ UNCHANGED <<call, runVars>>

SpecSplitContacts == InitSplitContacts /\ [][CallSplitContacts]_vars

\* the fragments of a text: its maximal stretches free of separators, as <<first, last>>
Fragments(t) ==
    {f \in (1..Len(t)) \X (1..Len(t)) :
        /\ f[1] <= f[2]
        /\ \A k \in f[1]..f[2] : Ch(t, k) \notin ContactSeps
        /\ f[1] = 1 \/ Ch(t, f[1] - 1) \in ContactSeps
        /\ f[2] = Len(t) \/ Ch(t, f[2] + 1) \in ContactSeps}

\* where the first fragment with the clean form v starts
FirstFragment(t, v) ==
    Min({f[1] : f \in {g \in Fragments(t) : clean_phone(SubSeq(t, g[1], g[2])) = v}})

\* C13: split_contacts result.  The returned sequence contains no empty
\* string and no value twice, every element is the clean_phone form of a
\* fragment obtained by splitting on runs of ; , / | & and whitespace, and the
\* elements appear in the order their first fragment appears in the text.
C13_SplitContacts ==
    (call.fn = "split_contacts" /\ ret.done) =>
        LET t == call.raw
            q == ret.v
        IN  /\ \A k \in 1..Len(q) : q[k] # ""
            /\ \A k, l \in 1..Len(q) : k # l => q[k] # q[l]
            /\ \A k \in 1..Len(q) :
                   \E f \in Fragments(t) : q[k] = clean_phone(SubSeq(t, f[1], f[2]))
            /\ \A k, l \in 1..Len(q) : k < l => FirstFragment(t, q[k]) < FirstFragment(t, q[l])

\* three fragments, the third repeating the first, gave two numbers
C13_Witness ==
    /\ call.fn = "split_contacts"
    /\ ret.done
    /\ Len(ret.v) = 2
    /\ Cardinality(Fragments(call.raw)) = 3
    /\ Ch(call.raw, 1) = Ch(call.raw, Len(call.raw))

\* ---------------------------------------------------------------- C14
\* C14: the cache mirrors the store.  After every processed row, for every
\* unit key the owner list held in the in-memory cache equals the owner list
\* of that record in the store (same entries, same order, same contacts per
\* entry): the store's contact-merge update modifies the owner entry that was
\* matched in the cache, also when several entries of the unit match the row's
\* owner_name, role or registration_date individually, and also when a stored
\* entry has a missing or null registration_date.
C14_CacheMirrorsStore ==
    pc \in {"loop", "done"} =>
        \A key \in DOMAIN existing_cache :
            existing_cache[key].owners = store[existing_cache[key]._id].owners

\* ---------------------------------------------------------------- C15
\* the entries of an owner list that carry the row's (owner_name, role, registration_date)
ExactEntries(owners, x) ==
    {e \in 1..Len(owners) : OwnerKey(owners[e]) = <<x.owner_name, x.role, x.reg_date>>}

Pushes(ops) == \E k \in 1..Len(ops) : ops[k].op = "update_push"

\* C15 (rule ordering): whenever the unit's owner list contains an entry with
\* the row's exact (owner_name, role, registration_date), the row is handled
\* as a contact merge into that entry and never appends an owner entry (no
\* push is issued, the owner lists of store and cache keep their length and
\* their keys, in the cache only that entry's contacts may grow, and the two
\* append counters stay), even if other entries with the same (owner_name,
\* role) and different dates exist, wherever they sit in the list; an entry is
\* appended only when no exact-key entry exists.
C15_RuleOrdering ==
    [][ (AtRow /\ ~MissingIdentifier(NextRow) /\ RowKey(NextRow) \in DOMAIN existing_cache) =>
          LET key    == RowKey(NextRow)
              id     == existing_cache[key]._id
              owners == existing_cache[key].owners
              exact  == ExactEntries(owners, NextRow)
          IN  /\ exact # {} =>
                    /\ ~Pushes(store_ops')
                    /\ Len(store'[id].owners) = Len(store[id].owners)
                    /\ Len(existing_cache'[key].owners) = Len(owners)
                    /\ \A e \in 1..Len(owners) :
                           /\ OwnerKey(existing_cache'[key].owners[e]) = OwnerKey(owners[e])
                           /\ OwnerKey(store'[id].owners[e]) = OwnerKey(store[id].owners[e])
                           /\ e # Min(exact) =>
                                  existing_cache'[key].owners[e] = owners[e]
                    /\ owners_added_same_owner_new_date' = owners_added_same_owner_new_date
                    /\ owners_added_new_owner' = owners_added_new_owner
              /\ ( \/ Pushes(store_ops')
                   \/ Len(store'[id].owners) > Len(store[id].owners)
                   \/ Len(existing_cache'[key].owners) > Len(owners)
                   \/ owners_added_same_owner_new_date' # owners_added_same_owner_new_date
                   \/ owners_added_new_owner' # owners_added_new_owner )
                 => exact = {}
      ]_vars

\* the latest row merged a contact into the second dated entry of its owner:
\* an entry of the same owner with another date sits before the exact one
C15_Witness ==
    /\ pc = "loop" /\ i >= 1
    /\ ~MissingIdentifier(LastRow)
    /\ store_ops # <<>> /\ store_ops[Len(store_ops)] = Op("update_addToSet", TRUE)
    /\ LET owners == existing_cache[RowKey(LastRow)].owners
           exact  == ExactEntries(owners, LastRow)
       IN  /\ exact # {}
           /\ \E e \in 1..Len(owners) :
                 /\ e < Min(exact)
                 /\ SameOwner(owners[e], LastRow)

\* ---------------------------------------------------------------- C16
OwnerUpdates(ops) == \E k \in 1..Len(ops) : ops[k].op \in {"update_push", "update_addToSet"}

\* the row leaves the owner lists and the owner counters as they are
OwnersUntouched ==
    /\ ~OwnerUpdates(store_ops')
    /\ Len(store') = Len(store)
    /\ \A d \in 1..Len(store) : store'[d].owners = store[d].owners
    /\ DOMAIN existing_cache' = DOMAIN existing_cache
    /\ \A key \in DOMAIN existing_cache :
           existing_cache'[key].owners = existing_cache[key].owners
    /\ owners_merged_contacts' = owners_merged_contacts
    /\ owners_added_same_owner_new_date' = owners_added_same_owner_new_date
    /\ owners_added_new_owner' = owners_added_new_owner

\* C16 (same-entry no-op): when a row matches an owner entry of its unit's
\* (cached) owner list on (owner_name, role, registration_date) and every
\* contact of the row is already in that entry's contacts, the unit's owner
\* list is left unchanged in the store and in the cache, no owner store update
\* is issued, and none of the three owner counters changes; a row with an
\* empty registration_date that repeats an earlier row of the run is handled
\* this way (empty matches empty).
C16_SameEntryNoOp ==
    [][ (AtRow /\ ~MissingIdentifier(NextRow)) =>
          /\ ( /\ RowKey(NextRow) \in DOMAIN existing_cache
               /\ LET owners == existing_cache[RowKey(NextRow)].owners
                      exact  == ExactEntries(owners, NextRow)
                  IN  /\ exact # {}
                      /\ \A c \in 1..Len(NextRow.contacts) :
                             InSeq(NextRow.contacts[c], owners[Min(exact)].contacts) )
             => OwnersUntouched
          /\ ( /\ NextRow.reg_date = ""
               /\ \E k \in 1..i : df[k] = df[i + 1] )
             => OwnersUntouched
      ]_vars

\* a row with an empty registration date and a phone number was repeated, and
\* its repeat issued no owner update
C16_Witness ==
    /\ pc = "loop" /\ i >= 2
    /\ df[i] = df[i - 1]
    /\ ~MissingIdentifier(LastRow)
    /\ LastRow.reg_date = ""
    /\ LastRow.contacts # <<>>
    /\ ~OwnerUpdates(store_ops)
    /\ inserted + updated = i

\* ---------------------------------------------------------------- C17
IsPrefix(a, b) == Len(a) <= Len(b) /\ SubSeq(b, 1, Len(a)) = a

\* every entry of the old list is still at its place with its key, and its
\* contacts are a prefix of what it holds now
Grown(old, new) ==
    /\ Len(old) <= Len(new)
    /\ \A e \in 1..Len(old) :
           /\ new[e].owner_name = old[e].owner_name
           /\ new[e].role = old[e].role
           /\ new[e].registration_date = old[e].registration_date
           /\ IsPrefix(old[e].contacts, new[e].contacts)

NoRepeatedContact(owners) ==
    \A e \in 1..Len(owners) :
        \A k, l \in 1..Len(owners[e].contacts) :
            k # l => owners[e].contacts[k] # owners[e].contacts[l]

\* C17 (monotonic owner history): across every step of a run each unit's
\* owner list only grows, in the store and in the cache: an existing entry is
\* never removed or reordered and keeps its owner_name, role and
\* registration_date, new entries are appended at the end, and each entry's
\* contacts only gain elements at their end and never contain a duplicate.
C17_MonotonicOwnerHistory ==
    /\ [][ run' = run =>
             /\ Len(store) <= Len(store')
             /\ \A d \in 1..Len(store) :
                    /\ KeyOf(store'[d]) = KeyOf(store[d])
                    /\ Grown(store[d].owners, store'[d].owners)
             /\ \A key \in DOMAIN existing_cache :
                    /\ key \in DOMAIN existing_cache'
                    /\ Grown(existing_cache[key].owners, existing_cache'[key].owners)
         ]_vars
    /\ [](/\ \A d \in 1..Len(store) : NoRepeatedContact(store[d].owners)
          /\ \A key \in DOMAIN existing_cache : NoRepeatedContact(existing_cache[key].owners))

\* a first import has ended on a record that holds three owner entries, the
\* first of which has gained a contact since it was written
C17_Witness ==
    /\ pc = "done" /\ run = 1
    /\ owners_merged_contacts >= 1
    /\ \E d \in 1..Len(store) :
           /\ Len(store[d].owners) = 3
           /\ Len(store[d].owners[1].contacts) >= 2

\* ---------------------------------------------------------------- C18
\* the record the insert path is to write for a row: key, eleven attributes, one owner
InsertedRecord(x) ==
    [building_name |-> x.building,
     unit_number   |-> x.unit_number,
     area_sqft     |-> x.area_sqft,
     price         |-> x.price,
     price_raw     |-> IF x.price_raw = "" THEN Null ELSE Str(x.price_raw),
     property_type |-> x.property_type,
     sub_type      |-> x.sub_type,
     beds          |-> x.beds,
     city          |-> x.city,
     community     |-> x.community,
     sub_community |-> x.sub_community,
     municipality_number     |-> x.municipality_number,
     municipality_sub_number |-> x.municipality_sub_number,
     owners        |-> <<CandidateOf(x)>>]

\* C18 (insert path): a non-skipped row whose key is absent from the cache
\* issues exactly one store operation, an insert; when it returns, the store
\* has gained one record holding the row's key, all eleven normalized
\* attributes (null where absent) and an owner list of exactly one entry equal
\* to the row's candidate owner, the other records are unchanged, the cache
\* holds that key with the same one-entry owner list, the inserted counter
\* has grown by one, and neither the updated counter nor any owner counter
\* has changed.
C18_InsertPath ==
    [][ (/\ AtRow /\ ~MissingIdentifier(NextRow)
         /\ RowKey(NextRow) \notin DOMAIN existing_cache) =>
          /\ Len(store_ops') = 1
          /\ store_ops'[1].op = "insert_one"
          /\ store_ops'[1].ok =>
                /\ store' = Append(store, InsertedRecord(NextRow))
                /\ DOMAIN existing_cache' = DOMAIN existing_cache \cup {RowKey(NextRow)}
                /\ existing_cache'[RowKey(NextRow)].owners = <<CandidateOf(NextRow)>>
                /\ existing_cache'[RowKey(NextRow)]._id = Len(store')
                /\ \A key \in DOMAIN existing_cache : existing_cache'[key] = existing_cache[key]
                /\ inserted' = inserted + 1
                /\ updated' = updated
                /\ owners_merged_contacts' = owners_merged_contacts
                /\ owners_added_same_owner_new_date' = owners_added_same_owner_new_date
                /\ owners_added_new_owner' = owners_added_new_owner
      ]_vars

\* the latest row was inserted with attributes it does not provide
C18_Witness ==
    /\ pc = "loop" /\ i >= 1
    /\ store_ops = <<Op("insert_one", TRUE)>>
    /\ store[Len(store)] = InsertedRecord(LastRow)
    /\ store[Len(store)].city = Null
    /\ store[Len(store)].price_raw = Null
    /\ store[Len(store)].owners[1].contacts # <<>>

\* ---------------------------------------------------------------- C19
\* the number of owner entries of a collection, all records together
RECURSIVE OwnerEntries(_)
OwnerEntries(coll) ==
    IF coll = <<>> THEN 0 ELSE Len(Head(coll).owners) + OwnerEntries(Tail(coll))

NonSkippedRows == Cardinality({k \in 1..Len(df) : ~MissingIdentifier(Extracted[df[k]])})

OwnerCounters ==
    owners_merged_contacts + owners_added_same_owner_new_date + owners_added_new_owner

\* C19 (counter accounting): at the end of a run that completes, inserted +
\* updated equals the number of non-skipped rows; inserted equals the number
\* of unit records the run created; each row on the update path increments at
\* most one of the three owner counters, so merged + added-new-date +
\* added-new-owner <= updated; and inserted + added-new-date +
\* added-new-owner equals the number of owner entries the run added to the store.
C19_CounterAccounting ==
    /\ [](pc = "done" =>
            /\ inserted + updated = NonSkippedRows
            /\ inserted = Len(store) - Len(store0)
            /\ OwnerCounters <= updated
            /\ inserted + owners_added_same_owner_new_date + owners_added_new_owner
                   = OwnerEntries(store) - OwnerEntries(store0)
            /\ summary = << [total_rows |-> Len(df), inserted |-> inserted, updated |-> updated,
                             owners_merged_contacts |-> owners_merged_contacts,
                             owners_added_same_owner_new_date |-> owners_added_same_owner_new_date,
                             owners_added_new_owner |-> owners_added_new_owner] >>)
    /\ [][ (AtRow /\ run' = run) =>
             /\ OwnerCounters' \in {OwnerCounters, OwnerCounters + 1}
             /\ owners_merged_contacts' >= owners_merged_contacts
             /\ owners_added_same_owner_new_date' >= owners_added_same_owner_new_date
             /\ owners_added_new_owner' >= owners_added_new_owner
             /\ OwnerCounters' > OwnerCounters => updated' = updated + 1
         ]_vars

\* a completed first run that skipped a row, merged contacts with one row and
\* appended an owner entry with another
C19_Witness ==
    /\ pc = "done" /\ run = 1
    /\ inserted + updated < Len(df)
    /\ owners_merged_contacts = 1
    /\ owners_added_same_owner_new_date + owners_added_new_owner = 1
    /\ summary # <<>>

\* ------------------------------------------- a run started again after an abort
\* The script is started again on the same workbook after a store failure ended
\* the run: main() from its first line, the cache seeded from the store as the
\* aborted run left it.
Resume ==
    /\ pc = "aborted"
    /\ ~resumed
    /\ resumed' = TRUE
    /\ existing_cache' = SeedCache(store)
    /\ store0' = store
    /\ total_rows' = Len(df)
    /\ i' = 0
    /\ pc' = "loop"
    /\ inserted' = 0
    /\ updated' = 0
    /\ owners_merged_contacts' = 0
    /\ owners_added_same_owner_new_date' = 0
    /\ owners_added_new_owner' = 0
    /\ summary' = <<>>
    /\ store_ops' = <<>>
    /\ UNCHANGED <<store, df, run, posRule, origin, call, ret>>

NextRecover == ProcessRow \/ Finish \/ Resume

SpecRecover == Init /\ [][NextRecover]_vars

\* main() started on a collection: the cache seeded from it, the counters zero
FreshRun(coll) ==
    [store |-> coll, cache |-> SeedCache(coll), inserted |-> 0, updated |-> 0,
     merged |-> 0, newdate |-> 0, newowner |-> 0, ops |-> <<>>, ok |-> TRUE]

\* the loop over the first n rows of df with no store call failing
RECURSIVE Uninterrupted(_, _)
Uninterrupted(S, n) ==
    IF n = 0 THEN S
    ELSE process_row(Uninterrupted(S, n - 1), Extracted[df[n]], 0, posRule)

C21_PriceConsistency ==
    \A d \in (Len(origin) + 1)..Len(store) :
        store[d].price = IF store[d].price_raw = Null THEN Null
                         ELSE parse_money(store[d].price_raw.v)

\* ---- the extraction of one row and the skip test (main, lines 211-245)
\* the columns a foreign sheet may carry, and the text a filled cell holds
ForeignHeaders == <<"Building Name", "Tower Name", "Unit No", "Unit Size", "Name", "Owner Name">>

ForeignCells == <<"Marina Heights", "Tower B", "101", "850", "J. Doe", "A. Khan">>

\* the row of a sheet that has the columns c marks present, filled or blank
RECURSIVE ForeignRow(_, _)
ForeignRow(c, k) ==
    IF k = 0 THEN <<>>
    ELSE ForeignRow(c, k - 1) \o
         (CASE c[k] = "absent" -> <<>>
            [] c[k] = "blank"  -> << <<ForeignHeaders[k], "">> >>
            [] OTHER           -> << <<ForeignHeaders[k], ForeignCells[k]>> >>)

ForeignRows ==
    {ForeignRow(c, Len(ForeignHeaders)) :
        c \in [1..Len(ForeignHeaders) -> {"absent", "blank", "filled"}]}

InitExtract ==
    /\ NoRun
    /\ call \in {[fn |-> "extract", row |-> r] : r \in ForeignRows}
    /\ ret = NoRet

CallExtract ==
    /\ call.fn = "extract"
    /\ ~ret.done
    /\ \E x \in {Extract(call.row)} :
           ret' = [done |-> TRUE, v |-> x, skipped |-> Skipped(x)]
    /\ UNCHANGED <<call, runVars>>

SpecExtract == InitExtract /\ [][CallExtract]_vars

\* the exact aliases of the logical fields a foreign sheet's columns belong to
FieldAliases ==
    [building    |-> {"building", "building name", "buildingname", "buildingnameen", "tower",
                      "tower name", "building (en)"},
     unit_number |-> {"unit no", "unit number", "unitnumber", "unit_no", "unit-no", "unit#",
                      "unit #", "unit", "unitno", "unitno."},
     area_sqft   |-> {"unit size", "size", "area", "area (sqft)", "built-up area"},
     owner_name  |-> {"name", "nameen", "owner name"}]

\* the trimmed cells of the columns whose header is an exact alias of a field other than f
CellsOfOtherFields(row, f) ==
    {strip(row[k][2]) : k \in {j \in 1..Len(row) :
        \E g \in DOMAIN FieldAliases \ {f} : lower(row[j][1]) \in FieldAliases[g]}}

HasValue(row, headers) ==
    \E k \in 1..Len(row) : lower(row[k][1]) \in headers /\ strip(row[k][2]) # ""

\* C22 (no cross-field extraction): the value extracted for one logical field
\* is never taken from a column whose header is an exact alias of a different
\* logical field; in particular a row whose 'Name', 'NameEn' and 'Owner Name'
\* columns are empty or absent but which has a non-empty 'Building Name' (or
\* 'Tower Name') column extracts an empty owner name and is skipped, and a row
\* with no non-empty unit-number column but a non-empty 'Unit Size' column
\* extracts an empty unit number and is skipped.
C22_NoCrossFieldExtraction ==
    (call.fn = "extract" /\ ret.done) =>
        /\ \A f \in {"building", "unit_number", "owner_name"} :
               ret.v[f] = "" \/ ret.v[f] \notin CellsOfOtherFields(call.row, f)
        /\ ( /\ ~HasValue(call.row, FieldAliases.owner_name)
             /\ HasValue(call.row, {"building name", "tower name"}) )
           => (ret.v.owner_name = "" /\ ret.skipped)
        /\ ( /\ ~HasValue(call.row, FieldAliases.unit_number)
             /\ HasValue(call.row, {"unit size"}) )
           => (ret.v.unit_number = "" /\ ret.skipped)

====
